---- MODULE Spec2Model ----
(***************************************************************************)
(* The HTTP control plane of geodns (src/http/http.go): the bearer-token   *)
(* gate, the three zone handlers over the shared zone registry and the     *)
(* zone files, and the lifecycle of Run.                                   *)
(*                                                                         *)
(* Strings the code inspects character by character (the Authorization     *)
(* header, the token) are sequences of one-character strings.  A zone's    *)
(* configuration is a mapping from the two JSON keys of Fields to values;  *)
(* a request body is the sequence of key/value pairs as posted.  JSON text *)
(* in a file is a sequence of tokens: the key/value pairs of an object, or *)
(* the one token of the literal null.                                      *)
(***************************************************************************)
EXTENDS Naturals, Sequences, FiniteSets

\* ------------------------------------------------------------------ bounds

\* Number of connections the server handles concurrently.
MaxReq == 2

Reqs == 1..MaxReq

\* ---------------------------------------------------------------- strings

Bearer == <<"B", "e", "a", "r", "e", "r">>
BearerSp == Bearer \o <<" ">>

\* strings.HasPrefix(s, p)
HasPrefix(s, p) == Len(s) >= Len(p) /\ SubSeq(s, 1, Len(p)) = p

\* strings.Replace(s, old, new, -1) for a non-empty old: every
\* non-overlapping occurrence, found left to right, is replaced.
RECURSIVE Replace(_, _, _)
Replace(s, old, new) ==
    IF Len(s) < Len(old) THEN s
    ELSE IF HasPrefix(s, old)
         THEN new \o Replace(SubSeq(s, Len(old) + 1, Len(s)), old, new)
         ELSE <<Head(s)>> \o Replace(Tail(s), old, new)

\* The tokens appconfig.Config.HTTP.Token is configured with.
Tokens == { <<"s">>, BearerSp \o <<"s">> }

\* The Authorization header values requests carry ("" is a missing header).
Headers ==
    { <<>>,
      BearerSp \o <<"s">>,
      BearerSp \o <<"x">>,
      Bearer \o <<"s">>,
      BearerSp \o BearerSp \o <<"s">>,
      <<"B", "a", "s", "i", "c", " ", "s">> }

\* ------------------------------------------------------------------ zones

Sentinel == "pgeodns"
Names == {Sentinel, "a", "b"}

\* The names Create-or-Replace requests are posted for.
PostNames == {"a"}

\* The JSON keys of a zone document, and json.Marshal's order of them.
Fields == {"serial", "ttl"}
KeyOrder == <<"serial", "ttl">>

\* A decoded document (objmap): the keys to their values.
Docs == { [serial |-> 1, ttl |-> 1], [serial |-> 2, ttl |-> 2] }

\* The pairs of a document in the order ks of its keys.
Pairs(d, ks) == [i \in 1..Len(ks) |-> <<ks[i], d[ks[i]]>>]

\* var objmap map[string]interface{}: the nil map, which has no key.  It is
\* told from every document by holding no value of Docs.
NoMap == [k \in Fields |-> 0]

\* The keys of an objmap.
MapKeys(d) == IF d = NoMap THEN {} ELSE Fields

\* The JSON literal null as file content.
NullText == << <<"null", 0>> >>

\* json.Marshal(objmap): the keys in sorted order; null for the nil map.
Marshal(d) == IF d = NoMap THEN NullText ELSE Pairs(d, KeyOrder)

\* The bodies requests carry: a JSON object with its keys in either order,
\* a JSON object followed by text ("trailing"), the JSON value null, a JSON
\* array, or text that does not start with a JSON value ("invalid").
ObjectBodies ==
    { [json |-> "object", pairs |-> Pairs(d, ks)] :
        d \in Docs, ks \in {KeyOrder, <<"ttl", "serial">>} }
TrailingBodies ==
    { [json |-> "trailing",
       pairs |-> Pairs([serial |-> 1, ttl |-> 1], KeyOrder)] }
Bodies ==
    ObjectBodies \cup TrailingBodies \cup
    { [json |-> "null", pairs |-> <<>>],
      [json |-> "array", pairs |-> <<>>], [json |-> "invalid", pairs |-> <<>>] }

\* c.ShouldBindJSON(&objmap), which is json.NewDecoder(body).Decode(&objmap):
\* the decoder reads one JSON value and does not look at what follows it.
\* An object gives the decoded mapping (a later pair of the same key wins),
\* null gives no error and leaves objmap nil, an array or text that starts
\* with no JSON value gives the error DecodeError.
DecodeError == "decode error"
RECURSIVE DecodePairs(_, _)
DecodePairs(ps, acc) ==
    IF ps = <<>> THEN acc
    ELSE DecodePairs(Tail(ps), [acc EXCEPT ![Head(ps)[1]] = Head(ps)[2]])
ShouldBindJSON(b) ==
    IF b.json \in {"array", "invalid"}
    THEN [err |-> DecodeError, objmap |-> NoMap]
    ELSE IF b.json = "null" THEN [err |-> "", objmap |-> NoMap]
    ELSE [err |-> "", objmap |-> DecodePairs(b.pairs, NoMap)]

\* Zone objects live on the heap; the registry and the handlers hold
\* pointers to them.  The object a handler allocates for name n in slot r is
\* [by |-> r, nm |-> n]; the zones the registry holds at start are by 0.
Nil == [by |-> 0, nm |-> ""]
ObjIds == [by : {0} \cup Reqs, nm : Names]
Free == [name |-> "", f |-> [k \in Fields |-> 0]]

\* zones.NewZone(name): an empty zone bound to the name.
NewZone(n) == [name |-> n, f |-> [k \in Fields |-> 0]]

\* A file: absent, empty after its truncation (or cut short by a failed
\* write), or holding the bytes of the last write.
NoFile == [st |-> "absent", data |-> <<>>]
Partial == [st |-> "partial", data |-> <<>>]
Written(data) == [st |-> "written", data |-> data]

\* ------------------------------------------------------------------ state

VARIABLES
    token,      \* appconfig.Config.HTTP.Token
    zonelist,   \* hs.zones: zone name -> pointer to a zone object, or Nil
    zoneObj,    \* the heap of zone objects: pointer -> zone, or Free
    file,       \* zonePath + name + ".json" -> bytes, NoFile or Partial
    req,        \* the request each connection is handling
    ctx,        \* which contexts are cancelled: Run's argument, errgroup's;
                \* whether the signal fired while a request was handled
    srv,        \* http.Server: listener open, Shutdown called
    task,       \* where the two goroutines of the errgroup are
    terr,       \* what each goroutine's function returned
    g,          \* errgroup.Group: its first error, the order of returns
    run         \* Run: not started, running or returned, and its result

httpVars == <<token, zonelist, zoneObj, file, req>>
runVars == <<ctx, srv, task, terr, g, run>>
vars == <<httpVars, runVars>>

\* Errors of the lifecycle.  NoErr is nil.
NoErr == "nil"
ErrServerClosed == "http: Server closed"
ErrListen == "listen error"
ErrCanceled == "context canceled"

NoResp == [success |-> FALSE, error |-> ""]

IdleReq ==
    [pc |-> "idle", kind |-> "", name |-> "", header |-> <<>>,
     json |-> "", zone |-> Nil, objmap |-> NoMap, todo |-> {},
     status |-> 0, resp |-> NoResp,
     ran |-> FALSE, mutated |-> FALSE, wrote |-> FALSE, raced |-> FALSE]

\* What Get serialises for name n: the live zone the registry points to.
Absent == Free
ViewOf(zl, heap, n) == IF zl[n] = Nil THEN Absent ELSE heap[zl[n]]
View(n) == ViewOf(zonelist, zoneObj, n)
RegistryView == [n \in Names |-> View(n)]

\* Zone objects neither the registry nor a handler points to are garbage.
Collect(heap, zl, rq) ==
    [o \in ObjIds |->
        IF (\E n \in Names : zl[n] = o) \/ (\E r \in Reqs : rq[r].zone = o)
        THEN heap[o] ELSE Free]

\* The zones the registry was loaded with before NewHTTPServer: the
\* sentinel, and possibly zone "b" from its file.
Loaded == { {Sentinel}, {Sentinel, "b"} }
LoadedDoc == [serial |-> 2, ttl |-> 1]

Init ==
    /\ token \in Tokens
    /\ \E L \in Loaded :
          /\ zonelist = [n \in Names |->
                           IF n \in L THEN [by |-> 0, nm |-> n] ELSE Nil]
          /\ zoneObj = [o \in ObjIds |->
                          IF o.by = 0 /\ o.nm \in L
                          THEN IF o.nm = Sentinel THEN NewZone(Sentinel)
                               ELSE [name |-> o.nm, f |-> LoadedDoc]
                          ELSE Free]
          /\ file = [n \in Names |->
                       IF n \in L \ {Sentinel}
                       THEN Written(Marshal(LoadedDoc)) ELSE NoFile]
    /\ req = [r \in Reqs |-> IdleReq]
    /\ ctx = [parent |-> FALSE, group |-> FALSE, during |-> FALSE]
    /\ srv = [listening |-> FALSE, inShutdown |-> FALSE]
    /\ task = [listener |-> "idle", watcher |-> "idle"]
    /\ terr = [listener |-> NoErr, watcher |-> NoErr]
    /\ g = [err |-> NoErr, order |-> <<>>]
    /\ run = [pc |-> "not-started", err |-> NoErr]

\* ------------------------------------------------------------- responses

\* A failure body that carries its message under the result key.
FailAsResult(e) == [success |-> FALSE, result |-> e]

\* gin.H{"success": true, "result": v} and gin.H{"success": false, "error": e}
Ok(v) == [success |-> TRUE, result |-> v]
Fail(e) == [success |-> FALSE, error |-> e]

WriteError == "write error"

\* c.JSON(status, body) as a handler's last statement: the response is
\* written, the handler returns and its local zone pointer is gone.
Respond(rec, status, body) ==
    [rec EXCEPT !.pc = "done", !.status = status, !.resp = body,
                !.zone = Nil, !.todo = {}]

\* A gate that writes the 401 response with c.JSON and lets the chain go on.
JSONWithoutAbort(rec, status, body) ==
    [rec EXCEPT !.pc = "handler", !.status = status, !.resp = body]

\* c.AbortWithStatusJSON(status, body); return: the response is written and
\* the remaining handlers of the chain are skipped.
AbortWithStatusJSON(rec, status, body) ==
    [rec EXCEPT !.pc = "done", !.status = status, !.resp = body]

\* Whether the step of a request to registry zl and heap changes what Get
\* can observe.
Touches(zl, heap) ==
    [n \in Names |-> ViewOf(zl, heap, n)] # RegistryView

\* --------------------------------------------------------------- requests

\* The router of NewHTTPServer accepts a request on one of the three routes
\* of the authorized group; checkToken is the first handler of its chain.
Receive(r) ==
    /\ req[r].pc = "idle"
    /\ task.listener = "serving" /\ srv.listening
    /\ \E k \in {"list", "get", "post"}, h \in Headers :
          req' = [req EXCEPT ![r] =
                    [IdleReq EXCEPT !.pc = "checkToken", !.kind = k,
                                    !.header = h]]
    /\ UNCHANGED <<token, zonelist, zoneObj, file, runVars>>

checkToken(r) ==
    /\ req[r].pc = "checkToken"
    /\ LET authHeader == req[r].header
           tok == Replace(authHeader, BearerSp, <<>>)
       IN  req' = [req EXCEPT ![r] =
              IF ~HasPrefix(authHeader, Bearer)
              THEN AbortWithStatusJSON(req[r], 401,
                       Fail("Authorization header is missing"))
              ELSE IF tok # token
                   THEN AbortWithStatusJSON(req[r], 401,
                            Fail("Unauthorized (401)"))
                   ELSE [req[r] EXCEPT !.pc = "handler"]]
    /\ UNCHANGED <<token, zonelist, zoneObj, file, runVars>>

\* slices.Collect(maps.Keys(m)): the keys of a map, each once, in any order.
Keys(S) ==
    { s \in [1..Cardinality(S) -> S] :
        \A i, j \in 1..Cardinality(S) : i # j => s[i] # s[j] }

\* A listing that filters nothing.
DeleteNothing(keys) == keys

\* slices.DeleteFunc(keys, func(key) bool { return key == "pgeodns" })
DeleteSentinel(keys) == SelectSeq(keys, LAMBDA k : k # Sentinel)

\* A listing that deletes the sentinel from the registry's map itself
\* instead of from the slice of its keys.
getZonesDeletingFromMap(r) ==
    /\ req[r].pc = "handler" /\ req[r].kind = "list"
    /\ LET zl == [zonelist EXCEPT ![Sentinel] = Nil]
       IN  /\ zonelist' = zl
           /\ \E keys \in Keys({n \in Names : zl[n] # Nil}) :
                 req' = [req EXCEPT ![r] =
                           Respond([req[r] EXCEPT !.ran = TRUE], 200,
                                   Ok(keys))]
           /\ zoneObj' = Collect(zoneObj, zl, req')
    /\ UNCHANGED <<token, file, runVars>>

\* getZones, lines 98-109.
getZones(r) ==
    /\ req[r].pc = "handler" /\ req[r].kind = "list"
    /\ \E keys \in Keys({n \in Names : zonelist[n] # Nil}) :
          req' = [req EXCEPT ![r] =
                    Respond([req[r] EXCEPT !.ran = TRUE], 200,
                            Ok(DeleteSentinel(keys)))]
    /\ UNCHANGED <<token, zonelist, zoneObj, file, runVars>>

\* A Get that creates and publishes an empty zone when the name is absent.
getZoneCreating(r) ==
    /\ req[r].pc = "handler" /\ req[r].kind = "get"
    /\ \E zoneName \in Names :
          LET found == zonelist[zoneName]
              zone == IF found = Nil THEN [by |-> r, nm |-> zoneName]
                      ELSE found
              heap == IF found = Nil
                      THEN [zoneObj EXCEPT ![zone] = NewZone(zoneName)]
                      ELSE zoneObj
              rec == [req[r] EXCEPT !.ran = TRUE, !.name = zoneName]
          IN  /\ zonelist' = [zonelist EXCEPT ![zoneName] = zone]
              /\ zoneObj' = heap
              /\ req' = [req EXCEPT ![r] = Respond(rec, 200, Ok(heap[zone]))]
    /\ UNCHANGED <<token, file, runVars>>

\* getZone, lines 111-125.
getZone(r) ==
    /\ req[r].pc = "handler" /\ req[r].kind = "get"
    /\ \E zoneName \in Names :
          LET zone == zonelist[zoneName]
              rec == [req[r] EXCEPT !.ran = TRUE, !.name = zoneName]
          IN  req' = [req EXCEPT ![r] =
                 IF zone # Nil
                 THEN Respond(rec, 200, Ok(zoneObj[zone]))
                 ELSE Respond(rec, 404, Fail("Zone not found"))]
    /\ UNCHANGED <<token, zonelist, zoneObj, file, runVars>>

\* Another Create-or-Replace of the same name between its lookup and its
\* response.
Rivals(r, n) ==
    { q \in Reqs \ {r} :
        /\ req[q].kind = "post" /\ req[q].name = n
        /\ req[q].pc \in {"apply", "write", "opened", "publish", "respond"} }

\* addZone, lines 134-140: the body does not decode; 400, and return.
BindFailed(rec, err) == Respond(rec, 400, Fail(err))

\* A lookup that gives a new zone object the sentinel's name instead of the
\* name of the path.
addZoneSentinelNamed(r) ==
    /\ req[r].pc = "handler" /\ req[r].kind = "post"
    /\ \E zoneName \in PostNames, body \in Bodies :
          LET found == zonelist[zoneName]
              zone == IF found = Nil THEN [by |-> r, nm |-> zoneName]
                      ELSE found
              heap == IF found = Nil
                      THEN [zoneObj EXCEPT ![zone] = NewZone(Sentinel)]
                      ELSE zoneObj
              bound == ShouldBindJSON(body)
              rivals == Rivals(r, zoneName)
              rec == [req[r] EXCEPT !.ran = TRUE, !.name = zoneName,
                                    !.json = body.json, !.zone = zone]
              rq == [q \in Reqs |->
                       IF q = r
                       THEN IF bound.err # ""
                            THEN BindFailed(rec, bound.err)
                            ELSE [rec EXCEPT !.pc = "apply",
                                             !.objmap = bound.objmap,
                                             !.todo = MapKeys(bound.objmap),
                                             !.raced = rivals # {}]
                       ELSE IF q \in rivals /\ bound.err = ""
                            THEN [req[q] EXCEPT !.raced = TRUE]
                            ELSE req[q]]
          IN  /\ req' = rq
              /\ zoneObj' = Collect(heap, zonelist, rq)
    /\ UNCHANGED <<token, zonelist, file, runVars>>

\* addZone, lines 128-140: the lookup (a new zone object when the name is
\* absent) and the decoding of the body.
addZone(r) ==
    /\ req[r].pc = "handler" /\ req[r].kind = "post"
    /\ \E zoneName \in PostNames, body \in Bodies :
          LET found == zonelist[zoneName]
              zone == IF found = Nil THEN [by |-> r, nm |-> zoneName]
                      ELSE found
              heap == IF found = Nil
                      THEN [zoneObj EXCEPT ![zone] = NewZone(zoneName)]
                      ELSE zoneObj
              bound == ShouldBindJSON(body)
              rivals == Rivals(r, zoneName)
              rec == [req[r] EXCEPT !.ran = TRUE, !.name = zoneName,
                                    !.json = body.json, !.zone = zone]
              rq == [q \in Reqs |->
                       IF q = r
                       THEN IF bound.err # ""
                            THEN BindFailed(rec, bound.err)
                            ELSE [rec EXCEPT !.pc = "apply",
                                             !.objmap = bound.objmap,
                                             !.todo = MapKeys(bound.objmap),
                                             !.raced = rivals # {}]
                       ELSE IF q \in rivals /\ bound.err = ""
                            THEN [req[q] EXCEPT !.raced = TRUE]
                            ELSE req[q]]
          IN  /\ req' = rq
              /\ zoneObj' = Collect(heap, zonelist, rq)
    /\ UNCHANGED <<token, zonelist, file, runVars>>

\* zone.ReadZoneJson(objmap), line 142: the zone object is overwritten in
\* place, one configuration field of the document at a time, with no lock
\* held; the nil map has no field to apply.
ReadZoneJson(r) ==
    /\ req[r].pc = "apply"
    /\ \/ /\ req[r].todo = {}
          /\ req' = [req EXCEPT ![r] = [req[r] EXCEPT !.pc = "write"]]
          /\ UNCHANGED zoneObj
       \/ \E k \in req[r].todo :
            LET heap == [zoneObj EXCEPT
                           ![req[r].zone].f[k] = req[r].objmap[k]]
                left == req[r].todo \ {k}
            IN  /\ zoneObj' = heap
                /\ req' = [req EXCEPT ![r] =
                             [req[r] EXCEPT
                                !.todo = left,
                                !.pc = IF left = {} THEN "write" ELSE "apply",
                                !.mutated = @ \/ Touches(zonelist, heap)]]
    /\ UNCHANGED <<token, zonelist, file, runVars>>

\* The content of a file holding old after data is written at offset 0.
WriteAt0(old, data) == data \o SubSeq(old, Len(data) + 1, Len(old))

\* A write whose error is dropped: the handler goes on to publish.
WriteFileErrIgnored(r) ==
    /\ LET zoneName == req[r].name
           data == Marshal(req[r].objmap)
       IN  \/ /\ req[r].pc = "write"
              /\ \/ /\ file' = [file EXCEPT ![zoneName] = Partial]
                    /\ req' = [req EXCEPT ![r] =
                                 [req[r] EXCEPT !.pc = "opened",
                                                !.wrote = TRUE]]
                 \/ /\ UNCHANGED file
                    /\ req' = [req EXCEPT ![r] =
                                 [req[r] EXCEPT !.pc = "publish"]]
           \/ /\ req[r].pc = "opened"
              /\ \/ file' = [file EXCEPT ![zoneName] =
                               Written(WriteAt0(file[zoneName].data, data))]
                 \/ UNCHANGED file
              /\ req' = [req EXCEPT ![r] = [req[r] EXCEPT !.pc = "publish"]]
    /\ UNCHANGED <<token, zonelist, zoneObj, runVars>>

\* A write that opens the file for appending instead of truncating it.
WriteFileAppending(r) ==
    /\ LET zoneName == req[r].name
           data == Marshal(req[r].objmap)
       IN  \/ /\ req[r].pc = "write"
              /\ \/ /\ file' = [file EXCEPT ![zoneName] =
                                     IF @ = NoFile THEN Partial ELSE @]
                    /\ req' = [req EXCEPT ![r] =
                                 [req[r] EXCEPT !.pc = "opened",
                                                !.wrote = TRUE]]
                    /\ UNCHANGED zoneObj
                 \/ /\ UNCHANGED file
                    /\ req' = [req EXCEPT ![r] =
                                 Respond(req[r], 400, Fail(WriteError))]
                    /\ zoneObj' = Collect(zoneObj, zonelist, req')
           \/ /\ req[r].pc = "opened"
              /\ file' = [file EXCEPT ![zoneName] =
                            Written(file[zoneName].data \o data)]
              /\ req' = [req EXCEPT ![r] = [req[r] EXCEPT !.pc = "publish"]]
              /\ UNCHANGED zoneObj
    /\ UNCHANGED <<token, zonelist, runVars>>

\* os.WriteFile(hs.zonePath+zoneName+".json", b, 0644), lines 153-160, which
\* is three system calls.  At "write" the file is opened with O_CREATE and
\* O_TRUNC: it becomes empty, or the open fails and the file is as it was.
\* At "opened" the data is written at offset 0 and the file is closed: the
\* write succeeds, or the write fails having written nothing, or the write
\* succeeds and the close reports an error.  An error is answered 400.
WriteFile(r) ==
    /\ LET zoneName == req[r].name
           data == Marshal(req[r].objmap)
           failed == Respond(req[r], 400, Fail(WriteError))
       IN  \/ /\ req[r].pc = "write"
              /\ \/ /\ file' = [file EXCEPT ![zoneName] = Partial]
                    /\ req' = [req EXCEPT ![r] =
                                 [req[r] EXCEPT !.pc = "opened",
                                                !.wrote = TRUE]]
                    /\ UNCHANGED zoneObj
                 \/ /\ UNCHANGED file
                    /\ req' = [req EXCEPT ![r] = failed]
                    /\ zoneObj' = Collect(zoneObj, zonelist, req')
           \/ /\ req[r].pc = "opened"
              /\ \/ /\ file' = [file EXCEPT ![zoneName] =
                               Written(WriteAt0(file[zoneName].data, data))]
                    /\ req' = [req EXCEPT ![r] =
                                 [req[r] EXCEPT !.pc = "publish"]]
                    /\ UNCHANGED zoneObj
                 \/ /\ UNCHANGED file
                    /\ req' = [req EXCEPT ![r] = failed]
                    /\ zoneObj' = Collect(zoneObj, zonelist, req')
                 \/ /\ file' = [file EXCEPT ![zoneName] =
                               Written(WriteAt0(file[zoneName].data, data))]
                    /\ req' = [req EXCEPT ![r] = failed]
                    /\ zoneObj' = Collect(zoneObj, zonelist, req')
    /\ UNCHANGED <<token, zonelist, runVars>>

\* hs.zones.AddHandler(zoneName, zone), line 162: the upsert.
AddHandler(r) ==
    /\ req[r].pc = "publish"
    /\ LET zl == [zonelist EXCEPT ![req[r].name] = req[r].zone]
       IN  /\ zonelist' = zl
           /\ req' = [req EXCEPT ![r] =
                        [req[r] EXCEPT !.pc = "respond",
                            !.mutated = @ \/ Touches(zl, zoneObj)]]
           /\ zoneObj' = Collect(zoneObj, zl, req')
    /\ UNCHANGED <<token, file, runVars>>

\* addZone, lines 164-167: the 200 response.
Created(r) ==
    /\ req[r].pc = "respond"
    /\ req' = [req EXCEPT ![r] =
                 Respond(req[r], 200, Ok("Zone created successfully"))]
    /\ zoneObj' = Collect(zoneObj, zonelist, req')
    /\ UNCHANGED <<token, zonelist, file, runVars>>

\* The response has been sent; the connection takes its next request.
Close(r) ==
    /\ req[r].pc = "done"
    /\ req' = [req EXCEPT ![r] = IdleReq]
    /\ UNCHANGED <<token, zonelist, zoneObj, file, runVars>>

\* --------------------------------------------------------------- lifecycle

\* Run, lines 66-93: the server is built, errgroup.WithContext derives the
\* group's context from Run's, and the two goroutines are started.
Run ==
    /\ run.pc = "not-started"
    /\ run' = [run EXCEPT !.pc = "running"]
    /\ task' = [listener |-> "start", watcher |-> "waiting"]
    /\ ctx' = [ctx EXCEPT !.group = ctx.parent]
    /\ UNCHANGED <<httpVars, srv, terr, g>>

\* The external cancellation signal: Run's context is cancelled, and with it
\* the group's context derived from it.  during records whether a request
\* was being handled when the signal fired.
Cancel ==
    /\ ~ctx.parent
    /\ ctx' = [parent |-> TRUE, group |-> run.pc # "not-started",
               during |-> \E r \in Reqs : req[r].pc \notin {"idle", "done"}]
    /\ UNCHANGED <<httpVars, srv, task, terr, g, run>>

\* A listener goroutine that returns whatever ListenAndServe returned.
ListenerResultUnfiltered(err) == err

\* The function of the listener goroutine, lines 79-87, given what
\* srv.ListenAndServe returned.
ListenerResult(err) ==
    IF err # NoErr /\ err # ErrServerClosed THEN err ELSE NoErr

\* The function errgroup's Go runs in goroutine t has returned err; what
\* the group does with it are the later steps errOnceDo and Done.
Returned(t, err) ==
    /\ task' = [task EXCEPT ![t] = "exited"]
    /\ terr' = [terr EXCEPT ![t] = err]
    /\ UNCHANGED <<g, ctx>>

\* errgroup's Go, after a function returned a non-nil error:
\* g.errOnce.Do(...) keeps the error and cancels the group's context if it
\* is the first to get there.  order is the order of these calls.
errOnceDo(t) ==
    /\ task[t] = "exited" /\ terr[t] # NoErr
    /\ task' = [task EXCEPT ![t] = "recorded"]
    /\ g' = [err |-> IF g.err = NoErr THEN terr[t] ELSE g.err,
             order |-> Append(g.order, t)]
    /\ ctx' = [ctx EXCEPT !.group = TRUE]
    /\ UNCHANGED <<httpVars, srv, terr, run>>

\* errgroup's Go, last: the deferred g.done() tells Wait that the goroutine
\* is finished.
Done(t) ==
    /\ \/ task[t] = "recorded"
       \/ task[t] = "exited" /\ terr[t] = NoErr
    /\ task' = [task EXCEPT ![t] = "returned"]
    /\ UNCHANGED <<httpVars, ctx, srv, terr, g, run>>

\* srv.ListenAndServe binds the address and starts accepting.
Listen ==
    /\ task.listener = "start" /\ ~srv.inShutdown
    /\ task' = [task EXCEPT !.listener = "serving"]
    /\ srv' = [srv EXCEPT !.listening = TRUE]
    /\ UNCHANGED <<httpVars, ctx, terr, g, run>>

\* srv.ListenAndServe fails to bind the address.
ListenFail ==
    /\ task.listener = "start" /\ ~srv.inShutdown
    /\ Returned("listener", ListenerResult(ErrListen))
    /\ UNCHANGED <<httpVars, srv, run>>

\* Accept fails while serving: Serve closes the listener and returns the
\* error.
ServeFail ==
    /\ task.listener = "serving" /\ ~srv.inShutdown
    /\ srv' = [srv EXCEPT !.listening = FALSE]
    /\ Returned("listener", ListenerResult(ErrListen))
    /\ UNCHANGED <<httpVars, run>>

\* srv.ListenAndServe returns ErrServerClosed once Shutdown was called.
ServeClosed ==
    /\ task.listener \in {"start", "serving"} /\ srv.inShutdown
    /\ Returned("listener", ListenerResult(ErrServerClosed))
    /\ UNCHANGED <<httpVars, srv, run>>

\* A watcher that returns when the context is done without shutting the
\* server down: the listener stays open.
WatchNoShutdown ==
    /\ task.watcher = "waiting" /\ ctx.group
    /\ task' = [task EXCEPT !.watcher = "shutdown"]
    /\ UNCHANGED <<httpVars, srv, ctx, terr, g, run>>

\* The watcher goroutine, lines 90-92: the group's context is done and
\* srv.Shutdown(ctx) starts: the listener is closed.
Watch ==
    /\ task.watcher = "waiting" /\ ctx.group
    /\ task' = [task EXCEPT !.watcher = "shutdown"]
    /\ srv' = [listening |-> FALSE, inShutdown |-> TRUE]
    /\ UNCHANGED <<httpVars, ctx, terr, g, run>>

\* srv.Shutdown(ctx) with the context it is given, which is done already:
\* nil when no connection is handling a request, ctx.Err() otherwise.
ShutdownResult ==
    IF \A r \in Reqs : req[r].pc = "idle" THEN NoErr ELSE ErrCanceled

Shutdown ==
    /\ task.watcher = "shutdown"
    /\ Returned("watcher", ShutdownResult)
    /\ UNCHANGED <<httpVars, srv, run>>

\* g.Wait(), line 95: both goroutines have returned; Run returns the group's
\* first error.
Wait ==
    /\ run.pc = "running"
    /\ task.listener = "returned" /\ task.watcher = "returned"
    /\ run' = [pc |-> "returned", err |-> g.err]
    /\ ctx' = [ctx EXCEPT !.group = TRUE]
    /\ UNCHANGED <<httpVars, srv, task, terr, g>>

\* ---------------------------------------------------------- specifications

\* The steps of the request connection r is handling.
Request(r) ==
    \/ Receive(r)
    \/ checkToken(r)
    \/ getZones(r)
    \/ getZone(r)
    \/ addZone(r)
    \/ ReadZoneJson(r)
    \/ WriteFile(r)
    \/ AddHandler(r)
    \/ Created(r)
    \/ Close(r)

\* The server started and serving: Run binds the listener, and the
\* connections handle requests concurrently.
Next ==
    \/ Run
    \/ Listen
    \/ \E r \in Reqs : Request(r)

Spec == Init /\ [][Next]_vars

\* The lifecycle of Run, with one connection handling requests.
NextRun ==
    \/ Run
    \/ Cancel
    \/ Listen
    \/ ListenFail
    \/ ServeFail
    \/ ServeClosed
    \/ Watch
    \/ Shutdown
    \/ \E t \in {"listener", "watcher"} : errOnceDo(t) \/ Done(t)
    \/ Wait
    \/ Request(1)

SpecRun == Init /\ [][NextRun]_vars

\* The lifecycle with the goroutines of Run scheduled: the watcher wakes
\* once its context is done, srv.Shutdown and srv.ListenAndServe return
\* once they can, a goroutine whose function returned goes on through
\* errgroup's bookkeeping, and g.Wait returns once both goroutines have.
\* Nothing is assumed of the requests, the signal or the failures of the
\* listener.
SpecRunFair ==
    /\ SpecRun
    /\ WF_vars(Watch)
    /\ WF_vars(Shutdown)
    /\ WF_vars(ServeClosed)
    /\ \A t \in {"listener", "watcher"} :
          WF_vars(errOnceDo(t)) /\ WF_vars(Done(t))
    /\ WF_vars(Wait)

\* ------------------------------------------------------------------ claims

\* The set of elements of a sequence.
Range(s) == { s[i] : i \in 1..Len(s) }

\* C1: durability precedes visibility: every zone the registry shows for a
\* name other than the sentinel has a durable copy, the file of that name
\* holding the document the visible zone reflects.
C1_DurabilityPrecedesVisibility ==
    \A n \in Names \ {Sentinel} :
        zonelist[n] # Nil => file[n] = Written(Marshal(View(n).f))

\* C2: a Create-or-Replace whose file write failed is answered 400 and has
\* changed nothing Get can observe.
C2_FailedWriteLeavesRegistry ==
    \A r \in Reqs :
        (req[r].pc = "done" /\ req[r].kind = "post" /\ req[r].json = "object"
            /\ req[r].status # 200)
        => (req[r].status = 400 /\ ~req[r].mutated)

\* The authorization the spec states: the header is "Bearer " followed by
\* exactly the configured token.
ExactBearer(T, H) ==
    /\ HasPrefix(H, BearerSp)
    /\ SubSeq(H, Len(BearerSp) + 1, Len(H)) = T

\* C3: a request passes checkToken if and only if its header is the Bearer
\* prefix followed by exactly the configured token; otherwise it is
\* answered 401.
C3_AcceptIffExactBearer ==
    \A r \in Reqs :
        req[r].pc \notin {"idle", "checkToken"}
        => ((req[r].status # 401) <=> ExactBearer(token, req[r].header))

\* C4: a request checkToken rejects runs no handler step: the registry is
\* neither read nor changed and no file is written for it.
C4_RejectedRunsNoHandler ==
    \A r \in Reqs :
        req[r].status = 401
        => /\ req[r].pc = "done"
           /\ ~req[r].ran /\ ~req[r].mutated /\ ~req[r].wrote
           /\ req[r].zone = Nil

\* C4's case: a Create-or-Replace was rejected while zone "a" was in the
\* registry and another request was being handled.
C4_Witness ==
    \E r \in Reqs :
        /\ req[r].status = 401 /\ req[r].kind = "post"
        /\ HasPrefix(req[r].header, Bearer)
        /\ zonelist["a"] # Nil
        /\ \E q \in Reqs \ {r} : req[q].pc = "apply"

\* The file of name n holds the serialisation of document d.
FileHolds(n, d) == file[n] = Written(Marshal(d))

\* Get for name n returns a zone reflecting document d.
GetReflects(n, d) == zonelist[n] # Nil /\ View(n).f = d

\* C5 as stated: for a Create-or-Replace with a decoded document, the file
\* holding the document and Get reflecting it become true together; no
\* state shows one without the other.
C5_TogetherAsStated ==
    \A r \in Reqs :
        (req[r].kind = "post" /\ req[r].json = "object"
            /\ req[r].pc \in {"apply", "write", "opened", "publish", "respond"}
            /\ ~req[r].raced)
        => (FileHolds(req[r].name, req[r].objmap)
                <=> GetReflects(req[r].name, req[r].objmap))

\* C5 as amended: when the 200 response of a Create-or-Replace that no other
\* Create-or-Replace of the same name overlapped is sent, the file holds the
\* serialisation of the posted document and Get reflects the document.
C5_BothAtResponse ==
    [][\A r \in Reqs :
         (req[r].kind = "post" /\ req[r].json = "object"
             /\ req[r].pc # "done" /\ req'[r].pc = "done"
             /\ req'[r].status = 200 /\ ~req[r].raced)
         => /\ FileHolds(req[r].name, req[r].objmap)'
            /\ GetReflects(req[r].name, req[r].objmap)']_vars

\* C5's case: a Create-or-Replace that replaced zone "a", published earlier
\* by the other connection, was answered 200 with its document in the file
\* and in the registry.
C5_Witness ==
    \E r \in Reqs :
        /\ req[r].kind = "post" /\ req[r].pc = "done" /\ req[r].status = 200
        /\ req[r].json = "object"
        /\ ~req[r].raced /\ req[r].mutated /\ req[r].wrote
        /\ FileHolds("a", req[r].objmap) /\ GetReflects("a", req[r].objmap)
        /\ zonelist["a"].by # r

\* C6: once two Create-or-Replace requests of the same name that overlapped
\* each other, each with a JSON object for its body, have both been
\* answered 200, the registry shows one of the two documents in full.
C6_OneDocumentInFull ==
    \A r, q \in Reqs :
        (r # q /\ req[r].kind = "post" /\ req[q].kind = "post"
            /\ req[r].json = "object" /\ req[q].json = "object"
            /\ req[r].raced /\ req[q].raced
            /\ req[r].pc = "done" /\ req[q].pc = "done"
            /\ req[r].status = 200 /\ req[q].status = 200
            /\ req[r].name = req[q].name)
        => View(req[r].name).f \in {req[r].objmap, req[q].objmap}

\* C7: a Create-or-Replace whose body is not a JSON object (an array, the
\* value null, text that is no JSON, an object followed by text) is
\* answered 400, changes nothing Get can observe and writes no file.
C7_MalformedBodyNoEffect ==
    \A r \in Reqs :
        (req[r].kind = "post"
            /\ req[r].json \in {"array", "invalid", "null", "trailing"})
        => /\ req[r].pc = "done" /\ req[r].status = 400
           /\ req[r].resp = Fail(DecodeError)
           /\ ~req[r].mutated /\ ~req[r].wrote

\* C8: when the external signal fired while a request was being handled
\* and the listener closed cleanly, Run returns with no error.
C8_WaitsForRequests ==
    (run.pc = "returned" /\ ctx.during /\ terr.listener = NoErr)
    => run.err = NoErr

\* The error of the goroutine that was first to hand the group an error.
FirstError ==
    IF g.order = <<>> THEN NoErr ELSE terr[g.order[1]]

\* C9: Run returns the first error a task handed to the group (first in
\* the order of errgroup's errOnce.Do), an error of the listener other than
\* "server closed" included; it returns an error whenever a task ended
\* with one, and the listener task never ends with the "server closed"
\* error.
C9_FailFast ==
    /\ terr.listener # ErrServerClosed
    /\ run.pc = "returned" => run.err = FirstError
    /\ (run.pc = "returned" /\ terr.listener # NoErr) => run.err # NoErr
    /\ (run.pc = "returned" /\ terr.watcher # NoErr) => run.err # NoErr

\* C9's case: the listener failed while a request was being handled, the
\* watcher's Shutdown then failed too, and Run returned the listener's
\* error.
C9_Witness ==
    /\ run.pc = "returned"
    /\ terr.listener = ErrListen /\ terr.watcher = ErrCanceled
    /\ run.err = ErrListen

\* C10: the List result holds exactly the names of the registry at the
\* time of the request other than the sentinel, each once.
C10_ListExactlyNonSentinel ==
    [][\A r \in Reqs :
         (req[r].kind = "list" /\ req[r].pc = "handler"
             /\ req'[r].pc = "done")
         => LET res == req'[r].resp.result
                names == {n \in Names : zonelist[n] # Nil} \ {Sentinel}
            IN  /\ req'[r].status = 200 /\ req'[r].resp.success
                /\ Range(res) = names
                /\ Len(res) = Cardinality(names)
                /\ Sentinel \notin Range(res)]_vars

\* C10's case: a List answered with both zones while the sentinel was in
\* the registry.
C10_Witness ==
    \E r \in Reqs :
        /\ req[r].kind = "list" /\ req[r].pc = "done"
        /\ req[r].status = 200
        /\ Len(req[r].resp.result) = 2
        /\ zonelist[Sentinel] # Nil

\* The document d of name n is in place for request r: Get reflects it and
\* the file holds it, or r has just truncated the file to write it again.
InPlace(r, n, d) ==
    /\ GetReflects(n, d)
    /\ FileHolds(n, d) \/ (req[r].pc = "opened" /\ file[n] = Partial)

\* C11: posting the same document again is idempotent: once the file of a
\* name holds the serialisation of a document and Get reflects it, no step
\* of a Create-or-Replace of that document for that name, other than a
\* failing write, changes what Get returns, and the file holds the same
\* bytes again from the request's write on, its 200 response included.
C11_RepostIsIdempotent ==
    [][\A r \in Reqs, n \in PostNames, d \in Docs :
         (/\ req[r].pc \in {"handler", "apply", "write", "opened",
                             "publish", "respond"}
          /\ req'[r] # req[r]
          /\ req'[r].kind = "post" /\ req'[r].json = "object"
          /\ req'[r].name = n /\ req'[r].objmap = d
          /\ req'[r].status # 400
          /\ InPlace(r, n, d))
         => /\ RegistryView' = RegistryView
            /\ InPlace(r, n, d)'
            /\ req'[r].pc = "done" => FileHolds(n, d)']_vars

\* C11's case: a document already in the file and the registry of zone "a"
\* was posted again, written again and answered 200, and nothing Get
\* returns changed on the way.
C11_Witness ==
    \E r \in Reqs :
        /\ req[r].kind = "post" /\ req[r].pc = "done" /\ req[r].status = 200
        /\ req[r].name = "a" /\ req[r].json = "object" /\ req[r].wrote
        /\ ~req[r].raced /\ ~req[r].mutated
        /\ FileHolds("a", req[r].objmap) /\ GetReflects("a", req[r].objmap)

\* C12: a Get of a name absent from the registry is answered 404 with the
\* error "Zone not found" and changes neither the registry, nor a zone
\* object, nor a file; the answer depends on nothing but the name being
\* absent, so repeating the Get gives it again.
C12_GetAbsentIs404 ==
    [][\A r \in Reqs :
         (/\ req[r].kind = "get" /\ req[r].pc = "handler"
          /\ req'[r].pc = "done"
          /\ zonelist[req'[r].name] = Nil)
         => /\ req'[r].status = 404
            /\ req'[r].resp = Fail("Zone not found")
            /\ UNCHANGED <<zonelist, zoneObj, file>>]_vars

\* C12's case: two Gets of the absent zone "b" were both answered 404 after
\* zone "a" had been created.
C12_Witness ==
    \E r, q \in Reqs :
        /\ r # q
        /\ req[r].kind = "get" /\ req[q].kind = "get"
        /\ req[r].pc = "done" /\ req[q].pc = "done"
        /\ req[r].name = "b" /\ req[q].name = "b"
        /\ req[r].status = 404 /\ req[q].status = 404
        /\ zonelist["b"] = Nil /\ zonelist["a"] # Nil

\* C13: every response written carries the boolean success flag and exactly
\* one of result and error: success true with result on 200, success false
\* with error on 400, 401 and 404, and no other status is answered.
C13_ResponseShape ==
    \A r \in Reqs :
        req[r].status # 0
        => /\ req[r].status \in {200, 400, 401, 404}
           /\ req[r].resp.success \in BOOLEAN
           /\ req[r].status = 200
                => /\ req[r].resp.success
                   /\ DOMAIN req[r].resp = {"success", "result"}
           /\ req[r].status \in {400, 401, 404}
                => /\ ~req[r].resp.success
                   /\ DOMAIN req[r].resp = {"success", "error"}

\* C13's case: a Create-or-Replace answered 400 for its failed write next to
\* a Get answered 200 with the zone.
C13_Witness ==
    \E r, q \in Reqs :
        /\ req[r].kind = "post" /\ req[r].status = 400
        /\ req[r].resp = Fail(WriteError)
        /\ req[q].kind = "get" /\ req[q].status = 200
        /\ req[q].resp = Ok(View(req[q].name))

\* C14: name agreement: the write of a Create-or-Replace with path name N
\* changes no file but that of N, its upsert changes no registry entry but
\* that of N and stores there the request's zone object, whose name is N;
\* and every zone object in the registry is stored under its own name.
C14_NameAgreement ==
    [][/\ \A n \in Names :
            zonelist'[n] # Nil => zoneObj'[zonelist'[n]].name = n
       /\ \A r \in Reqs :
            /\ (req[r].pc \in {"write", "opened"}
                    /\ req'[r].pc # req[r].pc)
                 => \A n \in Names \ {req[r].name} : file'[n] = file[n]
            /\ (req[r].pc = "publish" /\ req'[r].pc = "respond")
                 => /\ zonelist'[req[r].name] = req[r].zone
                    /\ zoneObj'[req[r].zone].name = req[r].name
                    /\ \A n \in Names \ {req[r].name} :
                          zonelist'[n] = zonelist[n]]_vars

\* C14's case: zone "a", created by a Create-or-Replace, is in the registry
\* under its name with its file written, next to the loaded zone "b".
C14_Witness ==
    /\ zonelist["a"] # Nil /\ zonelist["a"].by # 0
    /\ zoneObj[zonelist["a"]].name = "a"
    /\ file["a"].st = "written"
    /\ zonelist["b"] # Nil /\ file["b"] = Written(Marshal(LoadedDoc))

\* The steps of addZone in the order of its statements: the position a
\* Create-or-Replace is at, and the positions its next step can lead to.
StepOrder ==
    { <<"handler", "apply">>, <<"handler", "done">>,
      <<"apply", "apply">>, <<"apply", "write">>,
      <<"write", "opened">>, <<"write", "done">>,
      <<"opened", "publish">>, <<"opened", "done">>,
      <<"publish", "respond">>, <<"respond", "done">> }

\* C15: a Create-or-Replace goes through lookup and decode, apply,
\* serialize and write, publish, respond in this order: its upsert comes
\* after its own successful file write and before any response, its 200
\* response comes right after its upsert, a request answered 400 has made
\* no upsert, and nothing but an upsert changes a registry entry.
C15_WriteThenPublishThenRespond ==
    [][/\ \A r \in Reqs :
            (req[r].kind = "post" /\ req[r].pc # "checkToken"
                /\ req'[r].pc # req[r].pc /\ req'[r].pc # "idle")
            => /\ <<req[r].pc, req'[r].pc>> \in StepOrder
               /\ req'[r].pc = "respond"
                    => /\ req[r].wrote /\ req[r].todo = {}
                       /\ req[r].json \notin {"array", "invalid"}
                       /\ req[r].status = 0
                       /\ zonelist'[req[r].name] = req[r].zone
               /\ req'[r].pc = "done"
                    => /\ (req'[r].status = 200) <=> (req[r].pc = "respond")
                       /\ (req'[r].status = 400)
                            <=> (req[r].pc \in {"handler", "write", "opened"})
                       /\ zonelist' = zonelist
       /\ zonelist' # zonelist
            => \E r \in Reqs :
                 req[r].pc = "publish" /\ req'[r].pc = "respond"]_vars

\* C15's case: of two Create-or-Replace requests for the absent zone "a",
\* one failed at its write and the other was answered 200 after its write
\* and its upsert.
C15_Witness ==
    \E r, q \in Reqs :
        /\ req[r].kind = "post" /\ req[r].pc = "done" /\ req[r].status = 200
        /\ req[r].wrote /\ zonelist["a"] = [by |-> r, nm |-> "a"]
        /\ req[q].kind = "post" /\ req[q].pc = "done" /\ req[q].status = 400
        /\ req[q].resp = Fail(WriteError)

\* C16: Run returns only after both the listener goroutine and the watcher
\* goroutine have returned, and a running Run whose context was cancelled
\* or whose listener failed eventually returns, whether or not a request
\* is being handled.
C16_RunReturns ==
    /\ [](run.pc = "returned"
            => task.listener = "returned" /\ task.watcher = "returned")
    /\ (run.pc = "running" /\ (ctx.parent \/ terr.listener # NoErr))
          ~> (run.pc = "returned")

\* C16's case: Run has returned after the signal fired while the
\* connection is still handling a Create-or-Replace.
C16_Witness ==
    /\ run.pc = "returned" /\ ctx.parent /\ ctx.during
    /\ task.listener = "returned" /\ task.watcher = "returned"
    /\ req[1].kind = "post"
    /\ req[1].pc \in {"apply", "write", "opened", "publish"}

\* The names the registry holds.
ZoneNames == { n \in Names : zonelist[n] # Nil }

\* C17: no step removes a name from the registry; the set of names grows
\* only by the upsert of a Create-or-Replace, by exactly the name posted,
\* and the request that made the upsert is answered 200.
C17_NamesOnlyGrow ==
    [][/\ ZoneNames \subseteq ZoneNames'
       /\ ZoneNames' # ZoneNames
            => \E r \in Reqs :
                 /\ req[r].kind = "post"
                 /\ req[r].pc = "publish" /\ req'[r].pc = "respond"
                 /\ ZoneNames' = ZoneNames \cup {req[r].name}
       /\ \A r \in Reqs :
            (req[r].pc = "respond" /\ req'[r].pc # "respond")
            => req'[r].pc = "done" /\ req'[r].status = 200]_vars

\* C17's case: the registry was loaded with the sentinel alone, and a
\* Create-or-Replace answered 200 has added zone "a", and nothing else.
C17_Witness ==
    /\ ZoneNames = {Sentinel, "a"}
    /\ \E r \in Reqs :
         /\ req[r].kind = "post" /\ req[r].pc = "done"
         /\ req[r].status = 200 /\ req[r].name = "a"
         /\ zonelist["a"] = [by |-> r, nm |-> "a"]

\* C18: no step of a List or of a Get, found or not, changes the registry,
\* a zone object or a file.
C18_ReadsAreReadOnly ==
    [][\A r \in Reqs :
         (/\ req'[r] # req[r]
          /\ req[r].kind \in {"list", "get"}
               \/ req'[r].kind \in {"list", "get"})
         => UNCHANGED <<zonelist, zoneObj, file>>]_vars

\* C18's case: a List and a Get that found zone "a" were both answered 200
\* while the sentinel and zone "a", with its file, are in place.
C18_Witness ==
    \E r, q \in Reqs :
        /\ req[r].kind = "list" /\ req[r].pc = "done" /\ req[r].status = 200
        /\ req[q].kind = "get" /\ req[q].pc = "done" /\ req[q].status = 200
        /\ req[q].name = "a" /\ req[q].resp = Ok(View("a"))
        /\ zonelist[Sentinel] # Nil /\ file["a"].st = "written"

====
